---- MODULE Spec2Model ----
(***************************************************************************)
(* Model of the connection orchestrator of natck: MeasureMaxConnections    *)
(* (src/main.go:628-811) with its lookup queue, connection selection,      *)
(* lookup and scrap workers and the shutdown sequence.                     *)
(*                                                                         *)
(* Time is counted in seconds.  A timestamp is stored as its age           *)
(* (now - timestamp), saturated at MaxReplyAge / MaxRequestAge; the zero   *)
(* time.Time is the saturated age.  The select of the loop takes a ready   *)
(* case at once and a goroutine that left its select releases its token at *)
(* once: the clock advances only while neither has a step to take, that    *)
(* is, while the loop waits for fetches that are on the network.           *)
(***************************************************************************)
EXTENDS Integers, Sequences, FiniteSets, Bags, TLC

VARIABLES
    topo,               \* the environment of the run: seed list, DNS, pages, fetch outcomes
    pc,                 \* position of MeasureMaxConnections
    pendingResolutions, \* lookupQueue.urls
    pendingConns,       \* []*connection, created but first crawl not dispatched
    activeConns,        \* []*connection
    connectionIdCtr,
    repeatedDailFails,
    semC,               \* len(semC)
    tasks,              \* bag of goroutines started by the loop
    stopC,              \* TRUE once close(stopC) ran
    refill,             \* tokens pushed by the shutdown loop (workerLimit - i)
    exitReason,         \* which break left the loop
    ret,                \* value returned by MeasureMaxConnections
    robotstxt,          \* a robots.txt read on its own: its lines, the rules parsed
                        \* from them, the path asked for and the answer of pathAllowed
    history,            \* per connection id: time since its last dispatch and since its
                        \* last 429; recorded for the properties, not read by the loop
    failedConns,        \* []*connection of the loop over a pool of workers (connection.go)
    nWorkers,           \* its count of the workers
    workerCounter,      \* its sync.WaitGroup: the worker goroutines started and not ended
    keepAliveRequestsInWindow

vars == <<topo, pc, pendingResolutions, pendingConns, activeConns, connectionIdCtr,
          repeatedDailFails, semC, tasks, stopC, refill, exitReason, ret, history, robotstxt,
          failedConns, nWorkers, workerCounter, keepAliveRequestsInWindow>>

\* the variables that only the loop over a pool of workers uses
poolVars == <<failedConns, nWorkers, workerCounter, keepAliveRequestsInWindow>>

\* the loop over a pool of workers has not run
NoPool ==
    /\ failedConns = <<>>
    /\ nWorkers = 0
    /\ workerCounter = 0
    /\ keepAliveRequestsInWindow = 0

----------------------------------------------------------------------------
(* Bounds of the model *)

workerLimit == 2          \* capacity of semC (10000 in the source)
MaxConns == 6             \* cap on connectionIdCtr
MaxQueue == 3             \* cap on the number of batches in the lookup queue
MaxReplyAge == 4          \* saturation of the age of lastReply / replyTs, in seconds
MaxRequestAge == 2        \* saturation of the age of lastRequest / requestTs, in seconds
MaxIdleAge == 6           \* saturation of the time since the last dispatch, in seconds
MaxRules == 3             \* cap on the Allow and Disallow lines of a robots.txt
MaxValueLen == 2          \* cap on the length of the path of a rule
MaxLines == 4             \* cap on the lines of a robots.txt with User-agent lines
MaxPathLen == 3           \* cap on the length of the path asked for
MaxUncrawled == 2         \* cap on the uncrawledUrls of a connection of the pool loop
MaxBatch == 2             \* cap on the number of URLs of a batch put on a lookup queue of its own

(* Program constants, in milliseconds *)
KeepAliveReplyMs == 3500
KeepAliveRequestMs == 1000
DiscoveryRequestMs == 1000
DialFailLimit == 5

\* an age as a time.Duration in milliseconds
Since(age) == age * 1000

----------------------------------------------------------------------------
(* URLs *)

Url(scheme, host, port, path, frag) ==
    [scheme |-> scheme, host |-> host, port |-> port, path |-> path,
     query |-> "", frag |-> frag]

H(host, path) == Url("http", host, "", path, "")

NoUrl == Url("", "", "", "", "")

schemeToPort(scheme) ==
    CASE scheme = "http" -> "80"
      [] scheme = "https" -> "443"
      [] OTHER -> ""

urlPort(u) == IF u.port # "" THEN u.port ELSE schemeToPort(u.scheme)

canonicalHost(u) == <<u.host, urlPort(u)>>

urlToRelativeUrl(u) == [path |-> u.path, query |-> u.query]

resolveRelativeUrl(b, r) == [b EXCEPT !.path = r.path, !.query = r.query, !.frag = ""]

----------------------------------------------------------------------------
(* Sequence helpers standing for the slices package *)

\* slices.IndexFunc over the indices that satisfy the predicate: the first one,
\* 1-based; 0 stands for -1
IndexFunc(hits) ==
    IF hits = {} THEN 0 ELSE CHOOSE i \in hits : \A j \in hits : i <= j

\* slices.Delete(s, i, i+1)
Delete(s, i) == SubSeq(s, 1, i - 1) \o SubSeq(s, i + 1, Len(s))

Range(s) == {s[i] : i \in 1..Len(s)}

Min(a, b) == IF a < b THEN a ELSE b

----------------------------------------------------------------------------
(* lookupQueue *)

peek(q) == IF Len(q) = 0 THEN NoUrl ELSE q[1][1]

put(q, u) == Append(q, u)

\* the remainder of the first batch is dropped
popDroppingRemainder(q) == Tail(q)

\* the remainder of the first batch stays at the head of the queue
popInPlace(q) ==
    IF Len(q[1]) = 1 THEN Tail(q)
    ELSE <<Tail(q[1])>> \o Tail(q)

\* the remainder of the first batch is queued even when it is empty
popRotatingAlways(q) == Append(Tail(q), Tail(q[1]))

\* the queue left by pop; the popped URL is q[1][1]
pop(q) ==
    IF Len(q[1]) = 1 THEN Tail(q)
    ELSE Append(Tail(q), Tail(q[1]))

----------------------------------------------------------------------------
(* Index helpers of the orchestrator *)

\* compares the literal host and port, without the default port of the scheme
indexUrlByLiteralHostPort(urls, needle) ==
    IndexFunc({i \in 1..Len(urls) :
                  <<urls[i].host, urls[i].port>> = <<needle.host, needle.port>>})

indexUrlByHostPort(urls, needle) ==
    IndexFunc({i \in 1..Len(urls) : canonicalHost(urls[i]) = canonicalHost(needle)})

\* the first connection, whatever its id
indexConnectionByPosition(conns, needle) == IF Len(conns) > 0 THEN 1 ELSE 0

indexConnectionById(conns, needle) ==
    IndexFunc({i \in 1..Len(conns) : conns[i].id = needle})

indexConnectionByAddr(conns, addr) ==
    IndexFunc({i \in 1..Len(conns) : conns[i].ip = addr})

indexConnectionByHostPort(conns, u) ==
    IndexFunc({i \in 1..Len(conns) : conns[i].hostPort = canonicalHost(u)})

indexKeepAliveConnection(conns) ==
    IndexFunc({i \in 1..Len(conns) : /\ Since(conns[i].lastReply) > KeepAliveReplyMs
                                      /\ Since(conns[i].lastRequest) > KeepAliveRequestMs})

\* slices.MaxFunc over lastReply: the latest timestamp is the smallest age, the
\* first one on a tie; ages saturated at MaxReplyAge hide the order of the
\* timestamps, so any of them may be the maximum.
MaxLastReplyConnection(conns, avail) ==
    LET m == CHOOSE a \in {conns[i].lastReply : i \in avail} :
                 \A i \in avail : a <= conns[i].lastReply
        best == {i \in avail : conns[i].lastReply = m}
    IN  IF m < MaxReplyAge THEN {CHOOSE i \in best : \A j \in best : i <= j}
        ELSE best

makeConnection(addr, target) ==
    [id |-> 0, url |-> target, ip |-> addr, hostPort |-> canonicalHost(target),
     uncrawledUrls |-> {urlToRelativeUrl(target)},
     crawlingUrls |-> {}, crawledUrls |-> {},
     lastRequest |-> MaxRequestAge, lastReply |-> MaxReplyAge]

\* the head of pendingConns before the connection to keep alive
getNextConnectionPendingFirst(pend, act, freeWorkers) ==
    LET k == indexKeepAliveConnection(act)
        availableToCrawl == {i \in 1..Len(act) :
                                /\ act[i].uncrawledUrls # {}
                                /\ ~(Since(act[i].lastRequest) < DiscoveryRequestMs)}
    IN  IF Len(pend) > 0 THEN {<<"pending", 1>>}
        ELSE IF k # 0 THEN {<<"active", k>>}
        ELSE IF freeWorkers > 0 /\ Len(act) > 0 /\ availableToCrawl # {}
             THEN {<<"active", i>> : i \in MaxLastReplyConnection(act, availableToCrawl)}
        ELSE {}

\* the connections getNextConnection may return, as <<list, index>>
getNextConnection(pend, act, freeWorkers) ==
    LET k == indexKeepAliveConnection(act)
        availableToCrawl == {i \in 1..Len(act) :
                                /\ act[i].uncrawledUrls # {}
                                /\ ~(Since(act[i].lastRequest) < DiscoveryRequestMs)}
    IN  IF k # 0 THEN {<<"active", k>>}
        ELSE IF Len(pend) > 0 THEN {<<"pending", 1>>}
        ELSE IF freeWorkers > 0 /\ Len(act) > 0 /\ availableToCrawl # {}
             THEN {<<"active", i>> : i \in MaxLastReplyConnection(act, availableToCrawl)}
        ELSE {}

----------------------------------------------------------------------------
(* The environment: DNS, servers *)

ParsePort(p) ==
    CASE p = "80" -> 80
      [] p = "443" -> 443
      [] p = "8080" -> 8080
      [] OTHER -> -1

\* lookupAddr: the resolvedUrl; a failure is an empty address list
lookupAddr(h) ==
    LET p == ParsePort(urlPort(h))
        addrs == IF h.host \in DOMAIN topo.dns THEN topo.dns[h.host] ELSE <<>>
    IN  [url |-> h,
         addresses |-> IF p = -1 THEN <<>>
                       ELSE [i \in 1..Len(addrs) |-> [ip |-> addrs[i], port |-> p]]]

\* what getUrl may return for a fetch pinned to addr: "" is a response
FetchOutcomes(addr) ==
    IF addr.ip \in DOMAIN topo.outcomes THEN topo.outcomes[addr.ip] ELSE {""}

\* the URLs scraped from the response to a GET of u (links and Location)
Page(u) ==
    IF <<u.host, u.path>> \in DOMAIN topo.pages THEN topo.pages[<<u.host, u.path>>]
    ELSE <<>>

\* status code of the response to a GET of u
Status(u) ==
    IF <<u.host, u.path>> \in DOMAIN topo.status THEN topo.status[<<u.host, u.path>>].code
    ELSE 200

\* <<retry, ok>>: the Retry-After header of the response to a GET of u, in
\* milliseconds; retryAfter = -1 stands for a response without the header
parseHttp429Headers(u) ==
    LET k == <<u.host, u.path>>
    IN  IF k \in DOMAIN topo.status /\ topo.status[k].retryAfter # -1
        THEN <<topo.status[k].retryAfter * 1000, TRUE>>
        ELSE <<0, FALSE>>

isReponseRobotstxt(u) == u.path = "/robots.txt"

\* <<crawlDelay, found>>: the Crawl-delay of the robots.txt of the host of u, in
\* milliseconds
scrapRobotsTxt(u) ==
    IF u.host \in DOMAIN topo.robots THEN <<topo.robots[u.host], TRUE>> ELSE <<0, FALSE>>

----------------------------------------------------------------------------
(* Goroutines started by the loop *)

NoAddr == [ip |-> "", port |-> 0]

\* go func() { lookupAddrRequest(hUrl, ...); <-semC }: in lookupAddr
LookupTask(hUrl) ==
    [kind |-> "lookup", stage |-> "run", connId |-> 0, url |-> hUrl, ip |-> NoAddr,
     err |-> "", scrapedUrls |-> <<>>, addresses |-> <<>>,
     requestTs |-> 0, replyTs |-> 0, crawlDelay |-> 0]

\* go func() { scrapConnectionRequest(request, ...); <-semC }: in getUrl
ScrapTask(connId, url, ip) ==
    [kind |-> "scrap", stage |-> "run", connId |-> connId, url |-> url, ip |-> ip,
     err |-> "", scrapedUrls |-> <<>>, addresses |-> <<>>,
     requestTs |-> 0, replyTs |-> 0, crawlDelay |-> 0]

\* a goroutine past its select, about to run <-semC
ReleaseTask ==
    [kind |-> "done", stage |-> "release", connId |-> 0, url |-> NoUrl, ip |-> NoAddr,
     err |-> "", scrapedUrls |-> <<>>, addresses |-> <<>>,
     requestTs |-> 0, replyTs |-> 0, crawlDelay |-> 0]

AddTask(B, t) == B (+) SetToBag({t})

RemoveTask(B, t) == B (-) SetToBag({t})

ReplaceTask(B, t, u) == (B (-) SetToBag({t})) (+) SetToBag({u})

RECURSIVE SumCopies(_, _)
SumCopies(B, S) ==
    IF S = {} THEN 0
    ELSE LET t == CHOOSE x \in S : TRUE
         IN  B[t] + SumCopies(B, S \ {t})

NumTasks(B) == SumCopies(B, DOMAIN B)

\* a connection that was not dispatched and got no 429; since429 = -1: none
NoHistory == [hostPort |-> "", sinceDispatch |-> 0, since429 |-> -1, delay429 |-> 0,
              late |-> FALSE]

Max(a, b) == IF a >= b THEN a ELSE b

\* a response with a status of 400 or more returned as an error
scrapConnectionStatusAsError(r, err) ==
    [r EXCEPT !.stage = "send", !.replyTs = 0,
              !.err = IF err = "" /\ Status(r.url) >= 400 THEN "other" ELSE err,
              !.scrapedUrls = IF err = "" /\ Status(r.url) < 400 THEN Page(r.url) ELSE <<>>]

\* the roundtrip that scrapConnection returns for the request r when getUrl
\* returns err ("" for a response); replyTs = now
scrapConnection(r, err) ==
    IF err # "" THEN [r EXCEPT !.stage = "send", !.err = err, !.replyTs = 0]
    ELSE LET retry == parseHttp429Headers(r.url)
             limited == IF Status(r.url) # 429 THEN r.crawlDelay
                        ELSE IF retry[2] THEN Max(retry[1], r.crawlDelay)
                        ELSE r.crawlDelay + 1000
             robots == scrapRobotsTxt(r.url)
         IN  [r EXCEPT !.stage = "send", !.err = "", !.replyTs = 0,
                       !.crawlDelay = IF isReponseRobotstxt(r.url) /\ robots[2]
                                      THEN robots[1] ELSE limited,
                       !.scrapedUrls = Page(r.url)]

----------------------------------------------------------------------------
(* MeasureMaxConnections *)

RECURSIVE uniqueUrls(_, _)
\* the seeds kept by the first loop: the first URL of each host:port
uniqueUrls(urls, acc) ==
    IF urls = <<>> THEN acc
    ELSE IF indexUrlByHostPort(acc, Head(urls)) # 0 THEN uniqueUrls(Tail(urls), acc)
    ELSE uniqueUrls(Tail(urls), Append(acc, Head(urls)))

\* skips only the addresses of the pending connections
unusedAddressesPendingOnly(pend, act, addresses) ==
    SelectSeq(addresses, LAMBDA a : indexConnectionByAddr(pend, a) = 0)

\* skips no address
unusedAddressesAll(pend, act, addresses) == addresses

\* the addresses of a resolvedUrl that no pending or active connection holds
unusedAddresses(pend, act, addresses) ==
    SelectSeq(addresses, LAMBDA a : /\ indexConnectionByAddr(pend, a) = 0
                                    /\ indexConnectionByAddr(act, a) = 0)

\* the targets the request of an iteration may get: any uncrawled URL (map
\* iteration order), the connection's URL when there is none
Targets(c) ==
    IF c.uncrawledUrls = {} THEN {c.url}
    ELSE {resolveRelativeUrl(c.url, r) : r \in c.uncrawledUrls}

\* effect of a dispatch on the connection
Dispatched(c, target) ==
    LET rUrl == urlToRelativeUrl(target)
    IN  [c EXCEPT !.lastRequest = 0,
                  !.uncrawledUrls = @ \ {rUrl},
                  !.crawlingUrls = @ \cup {rUrl}]

\* effect of a reply on its connection
Replied(c, reply) ==
    LET rUrl == urlToRelativeUrl(reply.url)
    IN  [c EXCEPT !.crawlingUrls = @ \ {rUrl},
                  !.crawledUrls = @ \cup {rUrl},
                  !.lastRequest = reply.requestTs,
                  !.lastReply = reply.replyTs]

isDialError(err) == err = "dial"

nextDialFails(fails, err) == IF isDialError(err) THEN fails + 1 ELSE 0

\* keeps the connection of a failed reply in activeConns
dropFailedNever(act, i, err) == act

\* removes the connection of a dial error only
dropFailedDialOnly(act, i, err) == IF isDialError(err) THEN Delete(act, i) ELSE act

\* lines 749-751: a connection whose reply carries an error leaves activeConns
dropFailed(act, i, err) == IF err # "" THEN Delete(act, i) ELSE act

\* the scraped URL becomes uncrawled whatever the other sets hold
addUncrawledAlways(c, u) == [c EXCEPT !.uncrawledUrls = @ \cup {urlToRelativeUrl(u)}]

\* a scraped URL of the host of an active connection becomes uncrawled there
addUncrawled(c, u) ==
    LET r == urlToRelativeUrl(u)
    IN  IF r \notin c.crawlingUrls /\ r \notin c.crawledUrls
        THEN [c EXCEPT !.uncrawledUrls = @ \cup {r}]
        ELSE c

RECURSIVE partitionScraped(_, _, _)
\* first loop over reply.scrapedUrls: <<activeConns, newUrls>>
partitionScraped(act, urls, newUrls) ==
    IF urls = <<>> THEN <<act, newUrls>>
    ELSE LET u == Head(urls)
             i == indexConnectionByHostPort(act, u)
         IN  IF i # 0
             THEN partitionScraped([act EXCEPT ![i] = addUncrawled(act[i], u)],
                                   Tail(urls), newUrls)
             ELSE partitionScraped(act, Tail(urls), Append(newUrls, u))

RECURSIVE urlsToResolveInverted(_, _, _)
\* the test against the pending connections inverted
urlsToResolveInverted(newUrls, pend, acc) ==
    IF newUrls = <<>> THEN acc
    ELSE LET u == Head(newUrls)
         IN  IF indexUrlByHostPort(acc, u) # 0
             THEN urlsToResolveInverted(Tail(newUrls), pend, acc)
             ELSE IF indexConnectionByHostPort(pend, u) = 0
                  THEN urlsToResolveInverted(Tail(newUrls), pend, acc)
             ELSE urlsToResolveInverted(Tail(newUrls), pend, Append(acc, u))

RECURSIVE urlsToResolve(_, _, _)
\* second loop: one URL per host:port, none of a pending connection
urlsToResolve(newUrls, pend, acc) ==
    IF newUrls = <<>> THEN acc
    ELSE LET u == Head(newUrls)
         IN  IF indexUrlByHostPort(acc, u) # 0 THEN urlsToResolve(Tail(newUrls), pend, acc)
             ELSE IF indexConnectionByHostPort(pend, u) # 0
                  THEN urlsToResolve(Tail(newUrls), pend, acc)
             ELSE urlsToResolve(Tail(newUrls), pend, Append(acc, u))

haveMoreUrls(act) ==
    \E i \in 1..Len(act) :
        Cardinality(act[i].uncrawledUrls) + Cardinality(act[i].crawlingUrls) > 0

\* the success break without the test of len(semC)
loopEndIgnoringSem(pend, act, q, sem, fails) ==
    IF fails >= DialFailLimit THEN "saturation"
    ELSE IF Len(pend) = 0 /\ Len(q) = 0 /\ ~haveMoreUrls(act) THEN "success"
    ELSE "none"

\* the saturation break taken one dial failure late
loopEndAboveLimit(pend, act, q, sem, fails) ==
    IF fails > DialFailLimit THEN "saturation"
    ELSE IF Len(pend) = 0 /\ Len(q) = 0 /\ sem = 0 /\ ~haveMoreUrls(act) THEN "success"
    ELSE "none"

\* the success break without the test of len(pendingConns)
loopEndIgnoringPending(pend, act, q, sem, fails) ==
    IF fails >= DialFailLimit THEN "saturation"
    ELSE IF Len(q) = 0 /\ sem = 0 /\ ~haveMoreUrls(act) THEN "success"
    ELSE "none"

\* the two breaks at the end of an iteration
loopEnd(pend, act, q, sem, fails) ==
    IF fails >= DialFailLimit THEN "saturation"
    ELSE IF Len(pend) = 0 /\ Len(q) = 0 /\ sem = 0 /\ ~haveMoreUrls(act) THEN "success"
    ELSE "none"

\* end of an iteration: break and close(stopC), or loop
EndIteration(pend, act, q, sem, fails) ==
    LET r == loopEnd(pend, act, q, sem, fails)
    IN  /\ exitReason' = r
        /\ pc' = IF r = "none" THEN "loop" ELSE "shutdown"
        /\ stopC' = (r # "none")

----------------------------------------------------------------------------
(* Actions of the loop; each is one select case followed by the breaks *)

\* lines 640-652: the seeds enter the lookup queue, one batch each
Start ==
    /\ pc = "start"
    /\ LET u == uniqueUrls(topo.urls, <<>>)
       IN  pendingResolutions' = [i \in 1..Len(u) |-> <<u[i]>>]
    /\ pc' = "loop"
    /\ UNCHANGED <<poolVars, robotstxt, history, topo, pendingConns, activeConns, connectionIdCtr, repeatedDailFails,
                   semC, tasks, stopC, refill, exitReason, ret>>

\* case <-time.After(50 * time.Millisecond)
LoopTimeout ==
    /\ pc = "loop"
    /\ EndIteration(pendingConns, activeConns, pendingResolutions, semC, repeatedDailFails)
    /\ UNCHANGED <<poolVars, robotstxt, history, topo, pendingResolutions, pendingConns, activeConns, connectionIdCtr,
                   repeatedDailFails, semC, tasks, refill, ret>>

\* the lookup dispatched without a token of semC being free
LookupDispatchUnguarded ==
    /\ pc = "loop"
    /\ peek(pendingResolutions) # NoUrl
    /\ semC' = semC + 1
    /\ pendingResolutions' = pop(pendingResolutions)
    /\ tasks' = AddTask(tasks, LookupTask(peek(pendingResolutions)))
    /\ EndIteration(pendingConns, activeConns, pendingResolutions', semC', repeatedDailFails)
    /\ UNCHANGED <<poolVars, robotstxt, history, topo, pendingConns, activeConns, connectionIdCtr, repeatedDailFails,
                   refill, ret>>

\* case lookupAddrSemC <- struct{}{}
LookupDispatch ==
    /\ pc = "loop"
    /\ peek(pendingResolutions) # NoUrl
    /\ semC < workerLimit
    /\ semC' = semC + 1
    /\ pendingResolutions' = pop(pendingResolutions)
    /\ tasks' = AddTask(tasks, LookupTask(peek(pendingResolutions)))
    /\ EndIteration(pendingConns, activeConns, pendingResolutions', semC', repeatedDailFails)
    /\ UNCHANGED <<poolVars, robotstxt, history, topo, pendingConns, activeConns, connectionIdCtr, repeatedDailFails,
                   refill, ret>>

\* case h, ok := <-lookupAddrReply
AbsorbResolved ==
    /\ pc = "loop"
    /\ \E t \in DOMAIN tasks :
        /\ t.kind = "lookup" /\ t.stage = "send"
        /\ tasks' = ReplaceTask(tasks, t, ReleaseTask)
        /\ LET unused == unusedAddresses(pendingConns, activeConns, t.addresses)
           IN  IF Len(unused) = 0
               THEN UNCHANGED <<pendingConns, connectionIdCtr, history>>
               ELSE /\ connectionIdCtr < MaxConns
                    /\ pendingConns' = Append(pendingConns,
                           [makeConnection(unused[1], t.url) EXCEPT !.id = connectionIdCtr])
                    /\ connectionIdCtr' = connectionIdCtr + 1
                    /\ history' = Append(history, [NoHistory EXCEPT !.hostPort = canonicalHost(t.url)])
    /\ EndIteration(pendingConns', activeConns, pendingResolutions, semC, repeatedDailFails)
    /\ UNCHANGED <<poolVars, robotstxt, topo, pendingResolutions, activeConns, repeatedDailFails, semC,
                   refill, ret>>

\* case scrapRequestSemC <- struct{}{}
ScrapDispatch ==
    /\ pc = "loop"
    /\ semC < workerLimit
    /\ \E sel \in getNextConnection(pendingConns, activeConns, workerLimit - semC) :
        LET c == IF sel[1] = "pending" THEN pendingConns[sel[2]] ELSE activeConns[sel[2]]
        IN  \E target \in Targets(c) :
                /\ tasks' = AddTask(tasks, ScrapTask(c.id, target, c.ip))
                /\ history' = [history EXCEPT ![c.id + 1].sinceDispatch = 0]
                /\ IF sel[1] = "pending"
                   THEN /\ pendingConns' = Tail(pendingConns)
                        /\ activeConns' = Append(activeConns, Dispatched(c, target))
                   ELSE /\ pendingConns' = pendingConns
                        /\ activeConns' = [activeConns EXCEPT ![sel[2]] = Dispatched(c, target)]
    /\ semC' = semC + 1
    /\ EndIteration(pendingConns', activeConns', pendingResolutions, semC', repeatedDailFails)
    /\ UNCHANGED <<poolVars, robotstxt, topo, pendingResolutions, connectionIdCtr, repeatedDailFails,
                   refill, ret>>

\* the reply of a connection that has left activeConns still counted as a dial
\* failure or as a success
ApplyReplyCountingLate ==
    /\ pc = "loop"
    /\ \E reply \in DOMAIN tasks :
        /\ reply.kind = "scrap" /\ reply.stage = "send"
        /\ tasks' = ReplaceTask(tasks, reply, ReleaseTask)
        /\ LET i == indexConnectionById(activeConns, reply.connId)
           IN  IF i = 0
               THEN /\ history' = [history EXCEPT ![reply.connId + 1].late = topo.lates]
                    /\ repeatedDailFails' = nextDialFails(repeatedDailFails, reply.err)
                    /\ UNCHANGED <<activeConns, pendingResolutions>>
               ELSE LET act1 == [activeConns EXCEPT ![i] = Replied(activeConns[i], reply)]
                        act2 == dropFailed(act1, i, reply.err)
                        part == partitionScraped(act2, reply.scrapedUrls, <<>>)
                        toResolve == urlsToResolve(part[2], pendingConns, <<>>)
                    IN  /\ repeatedDailFails' = nextDialFails(repeatedDailFails, reply.err)
                        /\ activeConns' = part[1]
                        /\ pendingResolutions' =
                               IF Len(toResolve) > 0 THEN put(pendingResolutions, toResolve)
                               ELSE pendingResolutions
                        /\ Len(toResolve) > 0 => Len(pendingResolutions) < MaxQueue
                        /\ history' = IF reply.err = "" /\ Status(reply.url) = 429
                                      THEN [history EXCEPT ![reply.connId + 1] =
                                               [@ EXCEPT !.since429 = reply.replyTs,
                                                         !.delay429 = reply.crawlDelay]]
                                      ELSE history
    /\ EndIteration(pendingConns, activeConns', pendingResolutions', semC, repeatedDailFails')
    /\ UNCHANGED <<poolVars, robotstxt, topo, pendingConns, connectionIdCtr, semC, refill, ret>>

\* case reply, ok := <-scrapedReply
ApplyReply ==
    /\ pc = "loop"
    /\ \E reply \in DOMAIN tasks :
        /\ reply.kind = "scrap" /\ reply.stage = "send"
        /\ tasks' = ReplaceTask(tasks, reply, ReleaseTask)
        /\ LET i == indexConnectionById(activeConns, reply.connId)
           IN  IF i = 0
               THEN /\ history' = [history EXCEPT ![reply.connId + 1].late = topo.lates]
                    /\ UNCHANGED <<activeConns, pendingResolutions, repeatedDailFails>>
               ELSE LET act1 == [activeConns EXCEPT ![i] = Replied(activeConns[i], reply)]
                        act2 == dropFailed(act1, i, reply.err)
                        part == partitionScraped(act2, reply.scrapedUrls, <<>>)
                        toResolve == urlsToResolve(part[2], pendingConns, <<>>)
                    IN  /\ repeatedDailFails' = nextDialFails(repeatedDailFails, reply.err)
                        /\ activeConns' = part[1]
                        /\ pendingResolutions' =
                               IF Len(toResolve) > 0 THEN put(pendingResolutions, toResolve)
                               ELSE pendingResolutions
                        /\ Len(toResolve) > 0 => Len(pendingResolutions) < MaxQueue
                        /\ history' = IF reply.err = "" /\ Status(reply.url) = 429
                                      THEN [history EXCEPT ![reply.connId + 1] =
                                               [@ EXCEPT !.since429 = reply.replyTs,
                                                         !.delay429 = reply.crawlDelay]]
                                      ELSE history
    /\ EndIteration(pendingConns, activeConns', pendingResolutions', semC, repeatedDailFails')
    /\ UNCHANGED <<poolVars, robotstxt, topo, pendingConns, connectionIdCtr, semC, refill, ret>>

\* the shutdown loop counting its iterations without waiting for room in semC
RefillWithoutWaiting ==
    /\ pc = "shutdown"
    /\ refill < workerLimit
    /\ semC' = Min(semC + 1, workerLimit)
    /\ refill' = refill + 1
    /\ UNCHANGED <<poolVars, robotstxt, history, topo, pc, pendingResolutions, pendingConns, activeConns,
                   connectionIdCtr, repeatedDailFails, tasks, stopC, exitReason, ret>>

\* lines 803-806: for i := workerLimit; i > 0; i-- { semC <- struct{}{} }
Refill ==
    /\ pc = "shutdown"
    /\ refill < workerLimit
    /\ semC < workerLimit
    /\ semC' = semC + 1
    /\ refill' = refill + 1
    /\ UNCHANGED <<poolVars, robotstxt, history, topo, pc, pendingResolutions, pendingConns, activeConns, connectionIdCtr,
                   repeatedDailFails, tasks, stopC, exitReason, ret>>

\* the value of the arms that find a reply channel closed (lines 686-689, 724-727)
ReturnClosed ==
    /\ pc = "shutdown"
    /\ refill = workerLimit
    /\ pc' = "returned"
    /\ ret' = -1
    /\ UNCHANGED <<poolVars, robotstxt, history, topo, pendingResolutions, pendingConns, activeConns, connectionIdCtr,
                   repeatedDailFails, semC, tasks, stopC, refill, exitReason>>

\* returning without the shutdown loop of lines 803-806
ReturnBeforeRefill ==
    /\ pc = "shutdown"
    /\ pc' = "returned"
    /\ ret' = Len(activeConns)
    /\ UNCHANGED <<poolVars, robotstxt, history, topo, pendingResolutions, pendingConns, activeConns, connectionIdCtr,
                   repeatedDailFails, semC, tasks, stopC, refill, exitReason>>

\* lines 807-810: close the channels, return len(activeConns)
Return ==
    /\ pc = "shutdown"
    /\ refill = workerLimit
    /\ pc' = "returned"
    /\ ret' = Len(activeConns)
    /\ UNCHANGED <<poolVars, robotstxt, history, topo, pendingResolutions, pendingConns, activeConns, connectionIdCtr,
                   repeatedDailFails, semC, tasks, stopC, refill, exitReason>>

----------------------------------------------------------------------------
(* Actions of the goroutines and of the clock *)

\* lookupAddr returns
LookupComplete ==
    \E t \in DOMAIN tasks :
        /\ t.kind = "lookup" /\ t.stage = "run"
        /\ tasks' = ReplaceTask(tasks, t,
                        [t EXCEPT !.stage = "send", !.addresses = lookupAddr(t.url).addresses])
        /\ UNCHANGED <<poolVars, robotstxt, history, topo, pc, pendingResolutions, pendingConns, activeConns,
                       connectionIdCtr, repeatedDailFails, semC, stopC, refill,
                       exitReason, ret>>

\* scrapConnection returns for a fetch of connection id: the response or the
\* error of getUrl, replyTs = now
ScrapCompleteOf(id) ==
    \E t \in DOMAIN tasks :
        /\ t.kind = "scrap" /\ t.stage = "run" /\ t.connId = id
        /\ \E err \in FetchOutcomes(t.ip) : tasks' = ReplaceTask(tasks, t, scrapConnection(t, err))
        /\ UNCHANGED <<poolVars, robotstxt, history, topo, pc, pendingResolutions, pendingConns, activeConns,
                       connectionIdCtr, repeatedDailFails, semC, stopC, refill,
                       exitReason, ret>>

ScrapComplete == \E id \in 0..(MaxConns - 1) : ScrapCompleteOf(id)

\* case <-cancel of the select of lookupAddrRequest / scrapConnectionRequest
Cancel ==
    /\ stopC
    /\ \E t \in DOMAIN tasks :
        /\ t.stage = "send"
        /\ tasks' = ReplaceTask(tasks, t, ReleaseTask)
    /\ UNCHANGED <<poolVars, robotstxt, history, topo, pc, pendingResolutions, pendingConns, activeConns,
                   connectionIdCtr, repeatedDailFails, semC, stopC, refill, exitReason, ret>>

\* <-semC at the end of a goroutine
Release ==
    /\ ReleaseTask \in DOMAIN tasks
    /\ semC > 0
    /\ semC' = semC - 1
    /\ tasks' = RemoveTask(tasks, ReleaseTask)
    /\ UNCHANGED <<poolVars, robotstxt, history, topo, pc, pendingResolutions, pendingConns, activeConns,
                   connectionIdCtr, repeatedDailFails, stopC, refill, exitReason, ret>>

Older(age, max) == Min(age + 1, max)

AgeConn(c) == [c EXCEPT !.lastRequest = Older(@, MaxRequestAge),
                        !.lastReply = Older(@, MaxReplyAge)]

\* the times of history a second later
AgeHistory(h) ==
    [h EXCEPT !.sinceDispatch = Older(@, MaxIdleAge),
              !.since429 = IF @ = -1 THEN -1 ELSE Older(@, MaxReplyAge)]

AgeTask(t) ==
    IF t.kind # "scrap" THEN t
    ELSE [t EXCEPT !.requestTs = Older(@, MaxRequestAge),
                   !.replyTs = IF t.stage = "send" THEN Older(@, MaxReplyAge) ELSE @]

AgeTasks(B) ==
    LET img == {AgeTask(t) : t \in DOMAIN B}
    IN  [r \in img |-> SumCopies(B, {t \in DOMAIN B : AgeTask(t) = r})]

\* a step of the loop or of a goroutine that is taken within the second: a
\* reply or a release that is due, a dispatch, or the break that the 50 ms
\* timeout of the select leads to
Ready ==
    \/ \E t \in DOMAIN tasks : t.stage \in {"send", "release"}
    \/ loopEnd(pendingConns, activeConns, pendingResolutions, semC, repeatedDailFails) # "none"
    \/ /\ semC < workerLimit
       /\ \/ peek(pendingResolutions) # NoUrl
          \/ getNextConnection(pendingConns, activeConns, workerLimit - semC) # {}

\* one second passes
Tick ==
    /\ pc = "loop"
    /\ topo.slow
    /\ ~Ready
    /\ pendingConns' = [i \in 1..Len(pendingConns) |-> AgeConn(pendingConns[i])]
    /\ activeConns' = [i \in 1..Len(activeConns) |-> AgeConn(activeConns[i])]
    /\ tasks' = AgeTasks(tasks)
    /\ history' = [i \in 1..Len(history) |->
                       IF topo.timed /\ indexConnectionById(activeConns, i - 1) # 0
                       THEN AgeHistory(history[i])
                       ELSE history[i]]
    /\ UNCHANGED <<poolVars, robotstxt, topo, pc, pendingResolutions, connectionIdCtr, repeatedDailFails,
                   semC, stopC, refill, exitReason, ret>>

----------------------------------------------------------------------------
(* robots.txt rules (scrap_robotstxt.go).  The value of a line is the sequence
   of its characters *)

userAgent == "User-agent"
ruleAllow == "Allow"
ruleDisallow == "Disallow"
ruleCrawlDelay == "Crawl-delay"

\* strings.HasPrefix(s, p)
HasPrefix(s, p) == Len(p) <= Len(s) /\ SubSeq(s, 1, Len(p)) = p

IndexPathPrefix(paths, value) ==
    IndexFunc({i \in 1..Len(paths) : HasPrefix(value, paths[i])})

\* the map rules of scrapRobotsTxt; a key without an entry is an empty list
NoRules == [token \in {ruleAllow, ruleDisallow, ruleCrawlDelay} |-> <<>>]

\* time.ParseDuration, in ms; -1 is an error (a number without a unit is one)
ParseDuration(s) ==
    CASE s = <<"1", "s">> -> 1000
      [] s = <<"2", "s">> -> 2000
      [] OTHER -> -1

parseCrawlDelay(value) ==
    LET delayTime == ParseDuration(value)
    IN  IF delayTime # -1 THEN delayTime ELSE ParseDuration(value \o <<"s">>)

RECURSIVE scrapRules(_, _, _, _)
\* the loop of scrapRobotsTxt over the lines that have a token and a value: a
\* User-agent line sets matchingAgent unless a wildcard was seen in its run,
\* the first Crawl-delay that parses is kept, an Allow or Disallow line whose
\* path has a rule already parsed as a prefix is skipped
scrapRules(lines, rules, skipToNextValue, matchingAgent) ==
    IF lines = <<>> THEN rules
    ELSE LET token == Head(lines).token
             value == Head(lines).value
         IN  IF token = userAgent
             THEN IF ~skipToNextValue
                  THEN scrapRules(Tail(lines), rules, value = <<"*">>, value = <<"*">>)
                  ELSE scrapRules(Tail(lines), rules, skipToNextValue, matchingAgent)
             ELSE IF ~matchingAgent
             THEN scrapRules(Tail(lines), rules, skipToNextValue, matchingAgent)
             ELSE IF token = ruleCrawlDelay
             THEN IF Len(rules[ruleCrawlDelay]) > 0 \/ parseCrawlDelay(value) = -1
                  THEN scrapRules(Tail(lines), rules, FALSE, matchingAgent)
                  ELSE scrapRules(Tail(lines),
                                  [rules EXCEPT ![ruleCrawlDelay] = <<parseCrawlDelay(value)>>],
                                  FALSE, matchingAgent)
             ELSE IF IndexPathPrefix(rules[ruleAllow], value) # 0
             THEN scrapRules(Tail(lines), rules, FALSE, matchingAgent)
             ELSE IF IndexPathPrefix(rules[ruleDisallow], value) # 0
             THEN scrapRules(Tail(lines), rules, FALSE, matchingAgent)
             ELSE scrapRules(Tail(lines), [rules EXCEPT ![token] = Append(@, value)],
                             FALSE, matchingAgent)

\* robotstxt.pathAllowed
pathAllowed(r, path) ==
    IF Len(r.Disallow) = 0 THEN TRUE
    ELSE LET i == IndexPathPrefix(r.Disallow, path)
         IN  IF i = 0 THEN TRUE
             ELSE IF Len(r.Allow) = 0 THEN FALSE
             ELSE LET j == IndexPathPrefix(r.Allow, path)
                  IN  IF j = 0 THEN FALSE
                      ELSE Len(r.Disallow[i]) < Len(r.Allow[j])

PathChars == {"a", "b"}

\* the paths of the rules: not empty, a rule without a value is skipped
RuleValues == UNION {[1..n -> PathChars] : n \in 1..MaxValueLen}

RuleLines == [token : {ruleAllow, ruleDisallow}, value : RuleValues]

Files == UNION {[1..n -> RuleLines] : n \in 0..MaxRules}

Paths == UNION {[1..n -> PathChars] : n \in 0..MaxPathLen}

\* the lines of a file with records: User-agent lines of the wildcard and of a
\* named crawler, Crawl-delay lines with and without a unit and one that is
\* not a duration, rules with a path of one character
AgentLines ==
    [token : {userAgent}, value : {<<"*">>, <<"b", "o", "t">>}]
        \cup [token : {ruleCrawlDelay}, value : {<<"1">>, <<"2", "s">>, <<"x">>}]
        \cup [token : {ruleAllow, ruleDisallow}, value : [1..1 -> PathChars]]

AgentFiles == UNION {[1..n -> AgentLines] : n \in 0..MaxLines}

\* no robots.txt is read
NoFile == [lines |-> <<>>, parsed |-> FALSE, rules |-> NoRules, asked |-> FALSE,
           path |-> <<>>, allowed |-> TRUE]

----------------------------------------------------------------------------
(* Environments of the runs that are explored *)

NoPages == [x \in {} |-> <<>>]

AllOk == [x \in {} |-> {}]

\* no host serves a robots.txt with a Crawl-delay
NoRobots == [x \in {} |-> 0]

\* every page is served with status 200
AllFound == [x \in {} |-> [code |-> 200, retryAfter |-> -1]]

\* slow: lookups and fetches may take a second or more; otherwise the whole run
\* is over within the first second.  timed: the times of history are kept.
\* lates: history records the connections a late reply of which was dropped.
Topo(name, urls, dns, pages, outcomes) ==
    [name |-> name, urls |-> urls, dns |-> dns, pages |-> pages, outcomes |-> outcomes,
     slow |-> TRUE, timed |-> FALSE, lates |-> FALSE, robots |-> NoRobots,
     status |-> AllFound]

\* three seeds, two of them of the same host:port
TopoRepeat ==
    Topo("repeat",
         <<H("a", "/"), Url("http", "a", "80", "/x", "top"), H("b", "/")>>,
         ("a" :> <<"1">>) @@ ("b" :> <<"2">>),
         NoPages, AllOk)

\* two servers without links to other hosts; a links to a second page of its own
TopoFew ==
    Topo("few",
         <<H("a", "/"), H("b", "/")>>,
         ("a" :> <<"1">>) @@ ("b" :> <<"2">>),
         (<<"a", "/">> :> <<H("a", "/p")>>), AllOk)

\* a redirects to b
TopoRedirect ==
    Topo("redirect",
         <<H("a", "/")>>,
         ("a" :> <<"1">>) @@ ("b" :> <<"2">>),
         (<<"a", "/">> :> <<H("b", "/")>>), AllOk)

\* a and c link to b, which resolves to two addresses
TopoTwoAddr ==
    Topo("twoaddr",
         <<H("a", "/"), H("c", "/")>>,
         ("a" :> <<"1">>) @@ ("c" :> <<"2">>) @@ ("b" :> <<"3", "4">>),
         (<<"a", "/">> :> <<H("b", "/")>>) @@ (<<"c", "/">> :> <<H("b", "/")>>), AllOk)

\* b shares its first address with a, c has no other address than that of a
TopoShared ==
    Topo("shared",
         <<H("a", "/"), H("b", "/"), H("c", "/")>>,
         ("a" :> <<"1">>) @@ ("b" :> <<"1", "2">>) @@ ("c" :> <<"1">>),
         NoPages, AllOk)

\* a links to two pages of b, the second of which links to c
TopoGraph ==
    Topo("graph",
         <<H("a", "/")>>,
         ("a" :> <<"1">>) @@ ("b" :> <<"2">>) @@ ("c" :> <<"3">>),
         (<<"a", "/">> :> <<H("b", "/x"), H("b", "/y")>>)
            @@ (<<"b", "/y">> :> <<H("c", "/")>>), AllOk)

\* the page of a links to the hosts b and c
TopoFan ==
    Topo("fan",
         <<H("a", "/")>>,
         ("a" :> <<"1">>) @@ ("b" :> <<"2">>) @@ ("c" :> <<"3">>),
         (<<"a", "/">> :> <<H("b", "/"), H("c", "/")>>), AllOk)

\* b refuses connections, a answers or fails after the dial
TopoDial ==
    Topo("dial",
         <<H("a", "/"), H("b", "/")>>,
         ("a" :> <<"1">>) @@ ("b" :> <<"2">>),
         (<<"a", "/">> :> <<H("b", "/")>>),
         ("1" :> {"", "other"}) @@ ("2" :> {"dial"}))

\* one seed with a link to a page of its own host
TopoLone ==
    [Topo("lone", <<H("a", "/")>>, ("a" :> <<"1">>), (<<"a", "/">> :> <<H("a", "/p")>>), AllOk)
     EXCEPT !.timed = TRUE]

\* the seed links to the robots.txt of its host, which asks for a Crawl-delay
\* of 2 s, and to another page
TopoRobots ==
    [Topo("robots", <<H("a", "/")>>, ("a" :> <<"1">>),
          (<<"a", "/">> :> <<H("a", "/robots.txt"), H("a", "/p")>>), AllOk)
     EXCEPT !.timed = TRUE, !.robots = ("a" :> 2000)]

\* the seed links to two pages; /p is answered with 429 and Retry-After: 2
TopoRateLimited ==
    [Topo("ratelimited", <<H("a", "/")>>, ("a" :> <<"1">>),
          (<<"a", "/">> :> <<H("a", "/p"), H("a", "/q")>>), AllOk)
     EXCEPT !.timed = TRUE,
            !.status = (<<"a", "/p">> :> [code |-> 429, retryAfter |-> 2])]

\* the seed of a is answered with 404, the seed of b with 200
TopoNotFound ==
    [Topo("notfound", <<H("a", "/"), H("b", "/")>>, ("a" :> <<"1">>) @@ ("b" :> <<"2">>),
          NoPages, AllOk)
     EXCEPT !.status = (<<"a", "/">> :> [code |-> 404, retryAfter |-> -1])]

\* the seed x and the host y that a links to do not resolve
TopoUnresolved ==
    Topo("unresolved",
         <<H("a", "/"), H("x", "/")>>,
         ("a" :> <<"1">>),
         (<<"a", "/">> :> <<H("y", "/")>>), AllOk)

\* two seeds, each with a link to a second page of its own host
TopoPair ==
    Topo("pair",
         <<H("a", "/"), H("b", "/")>>,
         ("a" :> <<"1">>) @@ ("b" :> <<"2">>),
         (<<"a", "/">> :> <<H("a", "/p")>>) @@ (<<"b", "/">> :> <<H("b", "/p")>>), AllOk)

SeedHosts == <<"a", "b", "c", "d", "e", "f">>

\* n seeds on n endpoints, the first k of which refuse connections
TopoRefused(n, k, slow) ==
    [Topo("refused",
          [i \in 1..n |-> H(SeedHosts[i], "/")],
          [h \in {SeedHosts[i] : i \in 1..n} |-> <<h>>],
          NoPages,
          [h \in {SeedHosts[i] : i \in 1..n} |->
              IF h \in {SeedHosts[i] : i \in 1..k} THEN {"dial"} ELSE {""}])
     EXCEPT !.slow = slow]

Topologies ==
    {TopoRepeat, TopoFew, TopoRedirect, TopoShared, TopoGraph, TopoDial,
     TopoUnresolved, TopoRefused(6, 5, FALSE)}

----------------------------------------------------------------------------

InitWith(T) ==
    /\ topo \in T
    /\ pc = "start"
    /\ pendingResolutions = <<>>
    /\ pendingConns = <<>>
    /\ activeConns = <<>>
    /\ connectionIdCtr = 0
    /\ repeatedDailFails = 0
    /\ semC = 0
    /\ tasks = EmptyBag
    /\ stopC = FALSE
    /\ refill = 0
    /\ exitReason = "none"
    /\ ret = 0
    /\ history = <<>>
    /\ NoPool
    /\ robotstxt = NoFile

Init == InitWith(Topologies)

Next ==
    \/ Start
    \/ LoopTimeout
    \/ LookupDispatch
    \/ AbsorbResolved
    \/ ScrapDispatch
    \/ ApplyReply
    \/ Refill
    \/ Return
    \/ LookupComplete
    \/ ScrapComplete
    \/ Cancel
    \/ Release
    \/ Tick

Spec == Init /\ [][Next]_vars

\* the goroutines run, the fetches and lookups end, the select takes a case that
\* stays ready, time passes
Fairness ==
    /\ WF_vars(Start) /\ WF_vars(LoopTimeout) /\ WF_vars(LookupDispatch)
    /\ WF_vars(AbsorbResolved) /\ WF_vars(ScrapDispatch) /\ WF_vars(ApplyReply)
    /\ WF_vars(Refill) /\ WF_vars(Return)
    /\ WF_vars(LookupComplete) /\ WF_vars(Cancel) /\ WF_vars(Release) /\ WF_vars(Tick)
    /\ \A id \in 0..(MaxConns - 1) : WF_vars(ScrapCompleteOf(id))

\* fair runs on two slow servers that answer every fetch, and on six seeds five
\* of which refuse connections
FairSpec == InitWith({TopoFew, TopoRefused(6, 5, FALSE)}) /\ [][Next]_vars /\ Fairness

\* runs in which one reply puts a batch of two URLs on the lookup queue (servers
\* that answer at once), runs on one slow server and runs that end through
\* saturation
SpecFan ==
    InitWith({[TopoFan EXCEPT !.slow = FALSE], TopoLone, TopoRefused(6, 5, FALSE)})
        /\ [][Next]_vars

\* runs in which b is discovered twice and resolves to two addresses, and runs
\* that end through saturation
SpecTwoAddr == InitWith({TopoTwoAddr, TopoRefused(6, 5, FALSE)}) /\ [][Next]_vars

\* runs in which some of the seeds refuse connections: one of three with slow
\* servers, four to six of six
SpecRefused ==
    InitWith({TopoRefused(3, 1, TRUE)} \cup {TopoRefused(6, k, FALSE) : k \in 4..6})
        /\ [][Next]_vars

\* runs in which the times of the history are kept: one connection refreshed, a
\* robots.txt with a Crawl-delay, a 429, a 404; and runs that end through
\* saturation
SpecTimed ==
    InitWith({TopoLone, TopoRobots, TopoRateLimited, TopoNotFound, TopoRefused(6, 5, FALSE)})
        /\ [][Next]_vars

\* runs in which a fetch fails while a second fetch of its connection is in
\* flight, with the late replies recorded, and runs that end through saturation
SpecLate ==
    InitWith({[TopoDial EXCEPT !.lates = TRUE], TopoRefused(6, 5, FALSE)}) /\ [][Next]_vars

\* runs with two connections that both have a second page to crawl, and runs
\* that end through saturation
SpecPair == InitWith({TopoPair, TopoRefused(6, 5, FALSE)}) /\ [][Next]_vars

----------------------------------------------------------------------------
(* The loop over a pool of workers: MeasureMaxConnections of
   src/connection.go:147-308.  The seeds are the pending connections, a fixed
   set of worker goroutines takes the lookups and the fetches from the
   unbuffered channel workRequests, and the loop ends when every seed is
   counted as active or failed.  tasks holds the work the workers are busy
   with; a worker without a task waits on workRequests. *)

\* runtime.NumCPU()
NumCPU == 1

\* the port of a netip.AddrPort as the text put in url.Host
FormatPort(p) ==
    CASE p = 80 -> "80"
      [] p = 443 -> "443"
      [] p = 8080 -> "8080"
      [] OTHER -> "0"

\* c := makeConnection(urls[i]); c.id = uint(i)
seedConnection(h, id) ==
    [id |-> id, url |-> h, ip |-> NoAddr, uncrawledUrls |-> <<h>>, crawledUrls |-> <<>>,
     lastRequest |-> MaxRequestAge, lastReply |-> MaxReplyAge]

indexConnectionByAddrs(conns, addrs) ==
    IndexFunc({i \in 1..Len(conns) : \E a \in 1..Len(addrs) : conns[i].ip.ip = addrs[a].ip})

\* getNextConnection(pendingConns, activeConns): the list and the index of the
\* connection, <<"none", 0>> for nil
getNextPoolConnection(pend, act) ==
    LET keepAliveIdx == indexKeepAliveConnection(act)
    IN  IF keepAliveIdx # 0 THEN <<"active", keepAliveIdx>>
        ELSE IF Len(pend) > 0 THEN <<"pending", 1>>
        ELSE <<"none", 0>>

getNextUrl(q) == IF Len(q) = 0 THEN NoUrl ELSE q[1][1]

sliceContainsUrl(urls, needle) == \E i \in 1..Len(urls) : urls[i] = needle

\* the worker goroutines that wait on workRequests
IdleWorkers == workerCounter - NumTasks(tasks)

\* what the fetch of u by the client of a connection may return
PoolFetchOutcomes(u) ==
    LET addrs == lookupAddr(u).addresses
    IN  IF addrs = <<>> THEN {"other"} ELSE FetchOutcomes(addrs[1])

\* scrapConnection(r) of the worker: failed is err # "", host.ip is that of the
\* connection made
poolScrapConnection(t, err) ==
    [t EXCEPT !.stage = "send", !.err = err, !.replyTs = 0,
              !.scrapedUrls = IF err = "" THEN Page(t.url) ELSE <<>>,
              !.ip = IF err = "" THEN lookupAddr(t.url).addresses[1] ELSE @]

\* lines 285-300: the break, or the growth of the pool
PoolEndIteration(act, failed, inWindow, timedOut) ==
    IF Len(act) + Len(failed) = Len(topo.urls)
    THEN /\ pc' = "shutdown"
         /\ stopC' = TRUE
         /\ UNCHANGED <<nWorkers, workerCounter>>
    ELSE /\ UNCHANGED <<pc, stopC>>
         /\ LET maxNWorkers == Len(topo.urls)
                nNewWorkers ==
                    IF ~timedOut /\ inWindow > 1 /\ nWorkers < maxNWorkers
                    THEN Min((inWindow - 1) * nWorkers, maxNWorkers - nWorkers)
                    ELSE 0
            IN  /\ workerCounter' = workerCounter + nNewWorkers
                /\ nWorkers' = nWorkers + nNewWorkers

\* lines 153-171: the seeds become pending connections, 2*nWorkers workers start
PoolStart ==
    /\ pc = "start"
    /\ pendingConns' = [i \in 1..Len(topo.urls) |-> seedConnection(topo.urls[i], i - 1)]
    /\ nWorkers' = Max(Min(Len(topo.urls), 2 * NumCPU), Len(topo.urls) \div 100)
    /\ workerCounter' = 2 * nWorkers'
    /\ pc' = "loop"
    /\ UNCHANGED <<topo, pendingResolutions, activeConns, connectionIdCtr, repeatedDailFails,
                   semC, tasks, stopC, refill, exitReason, ret, history, robotstxt,
                   failedConns, keepAliveRequestsInWindow>>

\* case <-time.After(50 * time.Millisecond)
PoolTimeout ==
    /\ pc = "loop"
    /\ PoolEndIteration(activeConns, failedConns, keepAliveRequestsInWindow, TRUE)
    /\ UNCHANGED <<topo, pendingResolutions, pendingConns, activeConns, connectionIdCtr,
                   repeatedDailFails, semC, tasks, refill, exitReason, ret, history,
                   robotstxt, failedConns, keepAliveRequestsInWindow>>

\* case lookupAddrRequestC <- lookupRequest
PoolLookupDispatch ==
    /\ pc = "loop"
    /\ getNextUrl(pendingResolutions) # NoUrl
    /\ IdleWorkers > 0
    /\ tasks' = AddTask(tasks, LookupTask(getNextUrl(pendingResolutions)))
    /\ pendingResolutions' =
           IF Len(pendingResolutions[1]) < 2 THEN Tail(pendingResolutions)
           ELSE Append(Tail(pendingResolutions), pendingResolutions[1])
    /\ PoolEndIteration(activeConns, failedConns, keepAliveRequestsInWindow, FALSE)
    /\ UNCHANGED <<topo, pendingConns, activeConns, connectionIdCtr, repeatedDailFails, semC,
                   refill, exitReason, ret, history, robotstxt, failedConns,
                   keepAliveRequestsInWindow>>

\* case h, ok := <-lookupAddrReply
PoolAbsorbResolved ==
    /\ pc = "loop"
    /\ \E h \in DOMAIN tasks :
        /\ h.kind = "lookup" /\ h.stage = "send"
        /\ tasks' = RemoveTask(tasks, h)
        /\ LET i == indexConnectionByAddrs(activeConns, h.addresses)
           IN  IF i = 0 THEN UNCHANGED activeConns
               ELSE /\ Len(activeConns[i].uncrawledUrls) < MaxUncrawled
                    /\ activeConns' =
                           [activeConns EXCEPT ![i].uncrawledUrls =
                               Append(@, [h.url EXCEPT !.port = FormatPort(activeConns[i].ip.port)])]
    /\ PoolEndIteration(activeConns', failedConns, keepAliveRequestsInWindow, FALSE)
    /\ UNCHANGED <<topo, pendingResolutions, pendingConns, connectionIdCtr, repeatedDailFails,
                   semC, refill, exitReason, ret, history, robotstxt, failedConns,
                   keepAliveRequestsInWindow>>

\* case scrapRequestC <- scrapRequest
PoolScrapDispatch ==
    /\ pc = "loop"
    /\ IdleWorkers > 0
    /\ LET next == getNextPoolConnection(pendingConns, activeConns)
           c == IF next[1] = "active" THEN activeConns[next[2]] ELSE pendingConns[next[2]]
           target == IF Len(c.uncrawledUrls) > 0 THEN c.uncrawledUrls[1] ELSE c.url
       IN  /\ next[1] # "none"
           /\ tasks' = AddTask(tasks, ScrapTask(c.id, target, c.ip))
           /\ pendingConns' = IF next[1] = "pending" THEN Tail(pendingConns) ELSE pendingConns
           /\ keepAliveRequestsInWindow' =
                  IF Len(c.crawledUrls) > 0 THEN Min(keepAliveRequestsInWindow + 1, 10)
                  ELSE Max(keepAliveRequestsInWindow - 1, 0)
           /\ activeConns' = IF next[1] = "active"
                             THEN [activeConns EXCEPT ![next[2]].lastRequest = 0]
                             ELSE activeConns
    /\ PoolEndIteration(activeConns', failedConns, keepAliveRequestsInWindow', FALSE)
    /\ UNCHANGED <<topo, pendingResolutions, connectionIdCtr, repeatedDailFails, semC, refill,
                   exitReason, ret, history, robotstxt, failedConns>>

\* case reply, ok := <-scrapedReply
PoolApplyReply ==
    /\ pc = "loop"
    /\ \E reply \in DOMAIN tasks :
        /\ reply.kind = "scrap" /\ reply.stage = "send"
        /\ tasks' = RemoveTask(tasks, reply)
        /\ IF Len(reply.scrapedUrls) > 0
           THEN /\ Len(pendingResolutions) < MaxQueue
                /\ pendingResolutions' = Append(pendingResolutions, reply.scrapedUrls)
           ELSE UNCHANGED pendingResolutions
        /\ LET i == indexConnectionById(activeConns, reply.connId)
               old == IF i # 0 THEN activeConns[i]
                      ELSE [id |-> reply.connId, url |-> reply.url, ip |-> reply.ip,
                            uncrawledUrls |-> <<>>, crawledUrls |-> <<reply.url>>,
                            lastRequest |-> MaxRequestAge, lastReply |-> MaxReplyAge]
               j == IndexFunc({k \in 1..Len(old.uncrawledUrls) : old.uncrawledUrls[k] = reply.url})
               c == [old EXCEPT !.uncrawledUrls = IF j # 0 THEN Delete(@, j) ELSE @,
                                !.ip = reply.ip,
                                !.lastRequest = reply.requestTs,
                                !.lastReply = reply.replyTs,
                                !.crawledUrls = IF sliceContainsUrl(@, reply.url) THEN @
                                                ELSE Append(@, reply.url)]
           IN  IF i # 0
               THEN IF reply.err # ""
                    THEN /\ failedConns' = Append(failedConns, c)
                         /\ activeConns' = Delete(activeConns, i)
                    ELSE /\ activeConns' = [activeConns EXCEPT ![i] = c]
                         /\ UNCHANGED failedConns
               ELSE IF reply.err # ""
                    THEN /\ failedConns' = Append(failedConns, c)
                         /\ UNCHANGED activeConns
                    ELSE /\ activeConns' = Append(activeConns, c)
                         /\ UNCHANGED failedConns
    /\ PoolEndIteration(activeConns', failedConns', keepAliveRequestsInWindow, FALSE)
    /\ UNCHANGED <<topo, pendingConns, connectionIdCtr, repeatedDailFails, semC, refill,
                   exitReason, ret, history, robotstxt, keepAliveRequestsInWindow>>

\* scrapConnection returns in a worker
PoolScrapComplete ==
    \E t \in DOMAIN tasks :
        /\ t.kind = "scrap" /\ t.stage = "run"
        /\ \E err \in PoolFetchOutcomes(t.url) :
               tasks' = ReplaceTask(tasks, t, poolScrapConnection(t, err))
        /\ UNCHANGED <<topo, pc, pendingResolutions, pendingConns, activeConns, connectionIdCtr,
                       repeatedDailFails, semC, stopC, refill, exitReason, ret, history,
                       robotstxt, poolVars>>

\* case <-cancel of a worker: one that waits on workRequests, or one whose
\* work request waits to send its reply
PoolWorkerExit ==
    /\ stopC
    /\ workerCounter > 0
    /\ \/ /\ IdleWorkers > 0
          /\ UNCHANGED tasks
       \/ \E t \in DOMAIN tasks :
              /\ t.stage = "send"
              /\ tasks' = RemoveTask(tasks, t)
    /\ workerCounter' = workerCounter - 1
    /\ UNCHANGED <<topo, pc, pendingResolutions, pendingConns, activeConns, connectionIdCtr,
                   repeatedDailFails, semC, stopC, refill, exitReason, ret, history,
                   robotstxt, failedConns, nWorkers, keepAliveRequestsInWindow>>

\* lines 302-307: workerCounter.Wait() is over, return len(activeConns)
PoolReturn ==
    /\ pc = "shutdown"
    /\ workerCounter = 0
    /\ pc' = "returned"
    /\ ret' = Len(activeConns)
    /\ UNCHANGED <<topo, pendingResolutions, pendingConns, activeConns, connectionIdCtr,
                   repeatedDailFails, semC, tasks, stopC, refill, exitReason, history,
                   robotstxt, failedConns, nWorkers, workerCounter, keepAliveRequestsInWindow>>

\* a step the loop takes within the second: a reply that is due or a dispatch
\* to a worker that waits
PoolReady ==
    \/ \E t \in DOMAIN tasks : t.stage = "send"
    \/ /\ IdleWorkers > 0
       /\ \/ getNextUrl(pendingResolutions) # NoUrl
          \/ getNextPoolConnection(pendingConns, activeConns)[1] # "none"

\* one second passes
PoolTick ==
    /\ pc = "loop"
    /\ ~PoolReady
    /\ activeConns' = [i \in 1..Len(activeConns) |-> AgeConn(activeConns[i])]
    /\ tasks' = AgeTasks(tasks)
    /\ UNCHANGED <<topo, pc, pendingResolutions, pendingConns, connectionIdCtr,
                   repeatedDailFails, semC, stopC, refill, exitReason, ret, history,
                   robotstxt, poolVars>>

\* seeds a and b; the page of a links to a second page of a; a fetch of a may
\* fail
TopoPool ==
    Topo("pool",
         <<H("a", "/"), H("b", "/")>>,
         ("a" :> <<"1">>) @@ ("b" :> <<"2">>),
         (<<"a", "/">> :> <<H("a", "/p")>>),
         ("1" :> {"", "other"}))

InitPool == InitWith({TopoPool})

NextPool ==
    \/ PoolStart
    \/ PoolTimeout
    \/ PoolLookupDispatch
    \/ PoolAbsorbResolved
    \/ PoolScrapDispatch
    \/ PoolApplyReply
    \/ LookupComplete
    \/ PoolScrapComplete
    \/ PoolWorkerExit
    \/ PoolReturn
    \/ PoolTick

SpecPool == InitPool /\ [][NextPool]_vars

----------------------------------------------------------------------------
(* A robots.txt on its own: any file of up to MaxRules lines, parsed and asked
   for any path *)

InitRobots ==
    /\ topo = Topo("robots.txt", <<>>, AllOk, NoPages, AllOk)
    /\ pc = "robots"
    /\ \E f \in Files : robotstxt = [NoFile EXCEPT !.lines = f]
    /\ pendingResolutions = <<>>
    /\ pendingConns = <<>>
    /\ activeConns = <<>>
    /\ connectionIdCtr = 0
    /\ repeatedDailFails = 0
    /\ semC = 0
    /\ tasks = EmptyBag
    /\ stopC = FALSE
    /\ refill = 0
    /\ exitReason = "none"
    /\ ret = 0
    /\ history = <<>>
    /\ NoPool

\* txt := scrapRobotsTxt(file)
ScrapRobotsTxt ==
    /\ pc = "robots"
    /\ ~robotstxt.parsed
    /\ robotstxt' = [robotstxt EXCEPT !.parsed = TRUE, !.rules = scrapRules(robotstxt.lines, NoRules, FALSE, TRUE)]
    /\ UNCHANGED <<poolVars, history, topo, pc, pendingResolutions, pendingConns, activeConns,
                   connectionIdCtr, repeatedDailFails, semC, tasks, stopC, refill,
                   exitReason, ret>>

\* txt.pathAllowed(p)
PathAllowed ==
    /\ pc = "robots"
    /\ robotstxt.parsed
    /\ \E p \in Paths :
           robotstxt' = [robotstxt EXCEPT !.asked = TRUE, !.path = p,
                                     !.allowed = pathAllowed(robotstxt.rules, p)]
    /\ UNCHANGED <<poolVars, history, topo, pc, pendingResolutions, pendingConns, activeConns,
                   connectionIdCtr, repeatedDailFails, semC, tasks, stopC, refill,
                   exitReason, ret>>

NextRobots == ScrapRobotsTxt \/ PathAllowed

SpecRobots == InitRobots /\ [][NextRobots]_vars

\* a robots.txt of up to MaxLines lines with User-agent and Crawl-delay lines
InitAgents ==
    /\ topo = Topo("agents", <<>>, AllOk, NoPages, AllOk)
    /\ pc = "robots"
    /\ \E f \in AgentFiles : robotstxt = [NoFile EXCEPT !.lines = f]
    /\ pendingResolutions = <<>>
    /\ pendingConns = <<>>
    /\ activeConns = <<>>
    /\ connectionIdCtr = 0
    /\ repeatedDailFails = 0
    /\ semC = 0
    /\ tasks = EmptyBag
    /\ stopC = FALSE
    /\ refill = 0
    /\ exitReason = "none"
    /\ ret = 0
    /\ history = <<>>
    /\ NoPool

SpecAgents == InitAgents /\ [][NextRobots]_vars

----------------------------------------------------------------------------
(* The lookupQueue on its own: any queue of up to MaxQueue batches of up to
   MaxBatch URLs, and any sequence of put and pop on it *)

QueueUrls == {H("a", "/"), H("b", "/"), H("c", "/")}

Batches == UNION {[1..n -> QueueUrls] : n \in 1..MaxBatch}

Queues == UNION {[1..n -> Batches] : n \in 0..MaxQueue}

InitQueue ==
    /\ topo = Topo("queue", <<>>, AllOk, NoPages, AllOk)
    /\ pc = "queue"
    /\ pendingResolutions \in Queues
    /\ pendingConns = <<>>
    /\ activeConns = <<>>
    /\ connectionIdCtr = 0
    /\ repeatedDailFails = 0
    /\ semC = 0
    /\ tasks = EmptyBag
    /\ stopC = FALSE
    /\ refill = 0
    /\ exitReason = "none"
    /\ ret = 0
    /\ history = <<>>
    /\ NoPool
    /\ robotstxt = NoFile

\* hUrl := pendingResolutions.pop(): the lookup of the popped URL is the one
\* task kept
QueuePop ==
    /\ pc = "queue"
    /\ Len(pendingResolutions) > 0
    /\ tasks' = AddTask(EmptyBag, LookupTask(pendingResolutions[1][1]))
    /\ pendingResolutions' = pop(pendingResolutions)
    /\ UNCHANGED <<poolVars, robotstxt, history, topo, pc, pendingConns, activeConns, connectionIdCtr,
                   repeatedDailFails, semC, stopC, refill, exitReason, ret>>

\* pendingResolutions.put(urlsToResolve...)
QueuePut ==
    /\ pc = "queue"
    /\ Len(pendingResolutions) < MaxQueue
    /\ \E u \in Batches : pendingResolutions' = put(pendingResolutions, u)
    /\ UNCHANGED <<poolVars, robotstxt, history, topo, pc, pendingConns, activeConns, connectionIdCtr,
                   repeatedDailFails, semC, tasks, stopC, refill, exitReason, ret>>

NextQueue == QueuePop \/ QueuePut

SpecQueue == InitQueue /\ [][NextQueue]_vars

----------------------------------------------------------------------------
(* Properties *)

\* pending and active connections, in that order
AllConns == pendingConns \o activeConns

HostKeys(urls) == {canonicalHost(urls[i]) : i \in 1..Len(urls)}

\* scrap goroutines of connection id whose reply the loop has not received
InFlight(id) ==
    SumCopies(tasks, {t \in DOMAIN tasks : /\ t.kind = "scrap"
                                           /\ t.stage \in {"run", "send"}
                                           /\ t.connId = id})

\* C1: no two connections of pendingConns and activeConns are pinned to the
\* same endpoint (address and port).
C1_DistinctEndpoints ==
    \A i, j \in 1..Len(AllConns) : i # j => AllConns[i].ip # AllConns[j].ip

\* a connection was pinned to the second address of its host because another
\* connection holds the first one
C1_Witness ==
    \E i, j \in 1..Len(AllConns) :
        LET h == AllConns[j].url.host
        IN  /\ i # j
            /\ h \in DOMAIN topo.dns
            /\ Len(topo.dns[h]) > 1
            /\ AllConns[j].ip.ip = topo.dns[h][2]
            /\ AllConns[i].ip.ip = topo.dns[h][1]

\* C2: no two connections of pendingConns and activeConns have the same host
\* key (host:port).
C2_DistinctHostKeys ==
    \A i, j \in 1..Len(AllConns) : i # j => AllConns[i].hostPort # AllConns[j].hostPort

\* C3: at most one fetch of a connection is in flight: a connection never has
\* two scrap goroutines whose reply has not been applied.
C3_OneFetchInFlight ==
    \A t \in DOMAIN tasks : t.kind = "scrap" => InFlight(t.connId) <= 1

\* C4: for every connection uncrawledUrls, crawlingUrls and crawledUrls are
\* pairwise disjoint.
C4_DisjointUrlSets ==
    \A i \in 1..Len(AllConns) :
        LET c == AllConns[i]
        IN  /\ c.uncrawledUrls \cap c.crawlingUrls = {}
            /\ c.uncrawledUrls \cap c.crawledUrls = {}
            /\ c.crawlingUrls \cap c.crawledUrls = {}

\* the lookup queue right after the seeds were put: one batch per seed, distinct
\* host keys, each the first seed of its host key, no host key of a seed missing
SeedQueueOk ==
    LET q == pendingResolutions
        firstOf(k) == topo.urls[CHOOSE i \in 1..Len(topo.urls) :
                          /\ canonicalHost(topo.urls[i]) = k
                          /\ \A j \in 1..(i - 1) : canonicalHost(topo.urls[j]) # k]
    IN  /\ \A i \in 1..Len(q) : Len(q[i]) = 1 /\ q[i][1] = firstOf(canonicalHost(q[i][1]))
        /\ \A i, j \in 1..Len(q) : i # j => canonicalHost(q[i][1]) # canonicalHost(q[j][1])
        /\ {canonicalHost(q[i][1]) : i \in 1..Len(q)} = HostKeys(topo.urls)

SeedsOnDistinctEndpoints ==
    /\ Len(topo.urls) = Cardinality(HostKeys(topo.urls))
    /\ \A i \in 1..Len(topo.urls) : Len(lookupAddr(topo.urls[i]).addresses) = 1
    /\ \A i, j \in 1..Len(topo.urls) :
           i # j => lookupAddr(topo.urls[i]).addresses # lookupAddr(topo.urls[j]).addresses

EveryFetchSucceeds == \A ip \in DOMAIN topo.outcomes : topo.outcomes[ip] = {""}

NoLinksToOtherHosts ==
    \A k \in DOMAIN topo.pages :
        \A i \in 1..Len(topo.pages[k]) : topo.pages[k][i].host = k[1]

C6_Pre == SeedsOnDistinctEndpoints /\ EveryFetchSucceeds /\ NoLinksToOtherHosts

RefusedSeeds ==
    {i \in 1..Len(topo.urls) :
        \A a \in Range(lookupAddr(topo.urls[i]).addresses) : FetchOutcomes(a) = {"dial"}}

\* K seeds refuse connections, the others answer every fetch, no page has links
C7_Pre ==
    /\ SeedsOnDistinctEndpoints
    /\ topo.pages = NoPages
    /\ \A i \in 1..Len(topo.urls) :
           i \notin RefusedSeeds =>
               \A a \in Range(lookupAddr(topo.urls[i]).addresses) : FetchOutcomes(a) = {""}

\* C7 as stated: if K of N seeds refuse connections and the others respond,
\* MeasureMaxConnections returns N - K, for every K.
C7_ReturnsNMinusK ==
    (C7_Pre /\ pc = "returned") => ret = Len(topo.urls) - Cardinality(RefusedSeeds)

\* C7 amended: if K < 5 of N seeds refuse connections and the others respond,
\* MeasureMaxConnections returns N - K.
C7_ReturnsNMinusKBelowLimit ==
    (C7_Pre /\ pc = "returned" /\ Cardinality(RefusedSeeds) < DialFailLimit)
        => ret = Len(topo.urls) - Cardinality(RefusedSeeds)

\* four of six seeds refused and the run returned 2
C7_Witness ==
    C7_Pre /\ pc = "returned" /\ Cardinality(RefusedSeeds) = 4 /\ ret = 2

\* C8: every connection counted in the returned value has had a successful reply
\* applied (its crawledUrls is not empty; a connection with an error reply has
\* left activeConns), on the success and on the saturation path.
C8_CountsOnlyAnswered ==
    pc = "returned" => \A i \in 1..Len(activeConns) : activeConns[i].crawledUrls # {}

\* the step applies the successful reply of a connection that is still active
AppliesReply(reply) ==
    /\ pc = "loop"
    /\ reply.kind = "scrap" /\ reply.stage = "send" /\ reply.err = ""
    /\ indexConnectionById(activeConns, reply.connId) # 0
    /\ tasks' = ReplaceTask(tasks, reply, ReleaseTask)

\* the scraped URLs of reply whose host key no active and no pending connection has
Unmatched(reply) ==
    {k \in 1..Len(reply.scrapedUrls) :
        /\ indexConnectionByHostPort(activeConns, reply.scrapedUrls[k]) = 0
        /\ indexConnectionByHostPort(pendingConns, reply.scrapedUrls[k]) = 0}

\* the batch that the step has put on the lookup queue, <<>> if it has put none
NewBatch ==
    IF Len(pendingResolutions') = Len(pendingResolutions) + 1
       /\ SubSeq(pendingResolutions', 1, Len(pendingResolutions)) = pendingResolutions
    THEN pendingResolutions'[Len(pendingResolutions')]
    ELSE <<>>

\* the step absorbs a resolution with an endpoint that no connection is pinned
\* to: a connection of the resolved URL, pinned to the first such endpoint, is
\* appended to pendingConns
ResolvedBecomesPending ==
    \A t \in DOMAIN tasks :
        LET free == {k \in 1..Len(t.addresses) :
                        /\ indexConnectionByAddr(pendingConns, t.addresses[k]) = 0
                        /\ indexConnectionByAddr(activeConns, t.addresses[k]) = 0}
        IN  (/\ pc = "loop"
             /\ t.kind = "lookup" /\ t.stage = "send"
             /\ tasks' = ReplaceTask(tasks, t, ReleaseTask)
             /\ free # {})
            => /\ Len(pendingConns') = Len(pendingConns) + 1
               /\ pendingConns'[Len(pendingConns')].ip = t.addresses[IndexFunc(free)]
               /\ pendingConns'[Len(pendingConns')].hostPort = canonicalHost(t.url)
               /\ pendingConns'[Len(pendingConns')].id = connectionIdCtr

\* a return through the success condition leaves no connection undispatched,
\* and the run of the seed a that redirects to b returns 2, for a and b
SuccessLeavesNonePending ==
    /\ (pc = "returned" /\ exitReason = "success") => pendingConns = <<>>
    /\ (pc = "returned" /\ topo = TopoRedirect)
           => /\ ret = 2
              /\ {activeConns[i].hostPort : i \in 1..Len(activeConns)}
                     = {<<"a", "80">>, <<"b", "80">>}

RECURSIVE ReachableUrls(_)
\* the URLs reached from the set S of URLs by following the links of the pages
ReachableUrls(S) ==
    LET next == S \cup UNION {Range(Page(u)) : u \in S}
    IN  IF next = S THEN S ELSE ReachableUrls(next)

\* every host has one endpoint, no two hosts share one, and every fetch succeeds
C10_Pre ==
    /\ \A h \in DOMAIN topo.dns : Len(topo.dns[h]) = 1
    /\ \A g, h \in DOMAIN topo.dns : g # h => topo.dns[g] # topo.dns[h]
    /\ EveryFetchSucceeds

\* C10: on a link graph of hosts with pairwise distinct endpoints where every
\* fetch succeeds, when the loop ends through success the hosts with an active
\* connection are the hosts reachable from the seeds by following links.
C10_ActiveAreReachable ==
    (C10_Pre /\ pc = "returned" /\ exitReason = "success")
        => {activeConns[i].hostPort : i \in 1..Len(activeConns)}
               = {canonicalHost(u) : u \in ReachableUrls(Range(topo.urls))}

\* the history of the connection c
HistoryOf(c) == history[c.id + 1]

\* C11: while the loop runs every active connection issues a request in any
\* 5-second window: the time since the last dispatch on an active connection
\* never exceeds 5 s.
C11_RefreshedWithinWindow ==
    pc = "loop" =>
        \A i \in 1..Len(activeConns) :
            Since(HistoryOf(activeConns[i]).sinceDispatch) <= 5000

\* the step dispatches a crawl on the connection c
DispatchesOn(c) ==
    /\ pc = "loop"
    /\ \E target \in Targets(c) : tasks' = AddTask(tasks, ScrapTask(c.id, target, c.ip))

RobotsTxt == [path |-> "/robots.txt", query |-> ""]

\* C12: a crawl is dispatched on a connection only when the time since its
\* previous request is at least its crawlDelay, the Crawl-delay of the robots.txt
\* of its host once that robots.txt was returned to the connection.
C12_DispatchAfterCrawlDelay ==
    [][\A i \in 1..Len(AllConns) :
          LET c == AllConns[i]
          IN  (/\ DispatchesOn(c)
               /\ RobotsTxt \in c.crawledUrls
               /\ scrapRobotsTxt(c.url)[2])
              => Since(HistoryOf(c).sinceDispatch) >= scrapRobotsTxt(c.url)[1]]_vars

\* C13: after a 429 was applied to a connection, the next request on it is
\* dispatched no sooner after the 429 than the crawlDelay that the reply carries
\* (Retry-After when present, otherwise the previous delay extended by 1 s).
C13_DispatchAfterRetryAfter ==
    [][\A i \in 1..Len(AllConns) :
          LET c == AllConns[i]
          IN  (DispatchesOn(c) /\ HistoryOf(c).since429 # -1)
              => Since(HistoryOf(c).since429) >= HistoryOf(c).delay429]_vars

\* C14: a new connection starts with /robots.txt and the relative URL of its
\* seed in uncrawledUrls, and its first crawl targets /robots.txt.
C14_RobotsTxtFirst ==
    /\ \A i \in 1..Len(pendingConns) :
           {RobotsTxt, urlToRelativeUrl(pendingConns[i].url)} \subseteq pendingConns[i].uncrawledUrls
    /\ \A i \in 1..Len(activeConns) :
           (activeConns[i].crawledUrls = {} /\ activeConns[i].crawlingUrls # {})
               => RobotsTxt \in activeConns[i].crawlingUrls

\* C15: the loop is left at the end of the iteration in which repeatedDailFails
\* reaches 5, whatever is queued, pending or in flight, and the counter never
\* exceeds 5.
C15_ExitsAtFifthDialFailure ==
    [][/\ (pc = "loop" /\ repeatedDailFails' >= DialFailLimit)
              => (pc' = "shutdown" /\ exitReason' = "saturation")
       /\ repeatedDailFails' <= DialFailLimit]_vars

\* the loop was left through saturation with a seed still on the lookup queue
C15_Witness ==
    /\ pc = "shutdown"
    /\ exitReason = "saturation"
    /\ repeatedDailFails = DialFailLimit
    /\ peek(pendingResolutions) # NoUrl

\* C16: when the loop is left without saturation, the lookup queue is empty,
\* no connection is pending, no token of semC is held (no task is in flight) and
\* no active connection has an uncrawled or a crawling URL.
C16_SuccessMeansNoWorkLeft ==
    [][(pc = "loop" /\ pc' = "shutdown" /\ exitReason' # "saturation")
          => /\ pendingResolutions' = <<>>
             /\ pendingConns' = <<>>
             /\ semC' = 0
             /\ tasks' = EmptyBag
             /\ \A i \in 1..Len(activeConns') :
                    /\ activeConns'[i].uncrawledUrls = {}
                    /\ activeConns'[i].crawlingUrls = {}]_vars

\* the loop was left through success after a link of a seed was followed to
\* another host
C16_Witness ==
    /\ pc = "shutdown"
    /\ exitReason = "success"
    /\ refill = 0
    /\ connectionIdCtr > Len(topo.urls)

\* C17: the reply channels are closed (MeasureMaxConnections returns) only
\* after every goroutine has released its token, so none is left that could send
\* on a closed channel.
C17_ClosedAfterAllReleased ==
    pc = "returned" => (tasks = EmptyBag /\ semC = workerLimit)

\* a fetch was in flight when the loop was left and the run has returned
C17_Witness ==
    /\ pc = "returned"
    /\ exitReason = "saturation"
    /\ \E i \in 1..Len(activeConns) :
           activeConns[i].crawledUrls = {} /\ activeConns[i].crawlingUrls # {}

\* C18: the goroutines started never outnumber the worker cap nor, while the
\* loop runs, the tokens held in semC; with semC full no lookup and no crawl is
\* dispatched.
C18_DispatchGatedBySemaphore ==
    [][/\ NumTasks(tasks') <= workerLimit
       /\ pc' = "loop" => (NumTasks(tasks') <= semC' /\ semC' <= workerLimit)
       /\ (pc = "loop" /\ semC = workerLimit) => NumTasks(tasks') <= NumTasks(tasks)]_vars

\* semC is full while a lookup and a pending connection wait for a token
C18_Witness ==
    /\ pc = "loop"
    /\ semC = workerLimit
    /\ peek(pendingResolutions) # NoUrl
    /\ pendingConns # <<>>

\* C19: a reply with a status of 400 or more and no transport error leaves its
\* connection in activeConns, puts the requested URL in crawledUrls and does not
\* increment repeatedDailFails; the connection is counted in the value returned.
C19_ErrorStatusKeepsConnection ==
    [][/\ \A reply \in DOMAIN tasks :
              (AppliesReply(reply) /\ Status(reply.url) >= 400)
                  => LET i == indexConnectionById(activeConns', reply.connId)
                     IN  /\ i # 0
                         /\ urlToRelativeUrl(reply.url) \in activeConns'[i].crawledUrls
                         /\ repeatedDailFails' <= repeatedDailFails
       /\ (pc' = "returned" /\ topo = TopoNotFound) => ret' = 2]_vars

\* the seed answered with 404 was crawled and is counted
C19_Witness ==
    /\ topo = TopoNotFound
    /\ pc = "returned"
    /\ ret = 2
    /\ \E i \in 1..Len(activeConns) :
           /\ Status(activeConns[i].url) = 404
           /\ urlToRelativeUrl(activeConns[i].url) \in activeConns[i].crawledUrls

\* C20: a connection is in activeConns only once a successful reply was applied
\* to it: no active connection is without a crawled URL.
C20_ActiveOnlyAfterReply ==
    \A i \in 1..Len(activeConns) : activeConns[i].crawledUrls # {}

\* the step applies the reply, successful or not, of a connection that is
\* still active
AppliesAnyReply(reply) ==
    /\ pc = "loop"
    /\ reply.kind = "scrap" /\ reply.stage = "send"
    /\ indexConnectionById(activeConns, reply.connId) # 0
    /\ tasks' = ReplaceTask(tasks, reply, ReleaseTask)

\* ids of the connections created so far that are neither pending nor active
GoneIds == {id \in 0..(connectionIdCtr - 1) : indexConnectionById(AllConns, id) = 0}

\* C21: the step that applies a reply with a transport error removes the
\* connection from activeConns; a connection that has left both lists never
\* comes back, and the value returned counts the active connections only.
C21_FailedConnectionRemoved ==
    [][/\ \A reply \in DOMAIN tasks :
              (AppliesAnyReply(reply) /\ reply.err # "")
                  => /\ indexConnectionById(activeConns', reply.connId) = 0
                     /\ indexConnectionById(pendingConns', reply.connId) = 0
       /\ \A id \in GoneIds : /\ indexConnectionById(activeConns', id) = 0
                              /\ indexConnectionById(pendingConns', id) = 0
       /\ pc' = "returned" => ret' = Len(activeConns')]_vars

\* the run has returned after the connection of a failed with an error that is
\* not a dial error
C21_Witness ==
    /\ pc = "returned"
    /\ topo = TopoDial
    /\ ret = Len(activeConns)
    /\ \E id \in GoneIds : history[id + 1].hostPort = canonicalHost(H("a", "/"))

\* host keys of the connections that have failed
FailedHostKeys == {history[id + 1].hostPort : id \in GoneIds}

\* C22: no URL put on the lookup queue has the host key of a connection that
\* failed before.
C22_FailedHostNotQueued ==
    [][\A k \in 1..Len(NewBatch) : canonicalHost(NewBatch[k]) \notin FailedHostKeys]_vars

\* the step absorbs the resolution t, none of whose endpoints is free: the
\* list is empty or every endpoint has a pending or an active connection
AbsorbsUnusable(t) ==
    /\ pc = "loop"
    /\ t.kind = "lookup" /\ t.stage = "send"
    /\ tasks' = ReplaceTask(tasks, t, ReleaseTask)
    /\ \A k \in 1..Len(t.addresses) :
           \E i \in 1..Len(AllConns) : AllConns[i].ip = t.addresses[k]

\* C23: the lookup of a host that does not resolve is answered with an empty
\* endpoint list; absorbing a resolution without a free endpoint creates no
\* connection and leaves pendingConns, activeConns, the lookup queue, the id
\* counter and the dial-failure counter as they were.
C23_UnusableResolutionIgnored ==
    [][/\ \A t \in DOMAIN tasks' :
              (t.kind = "lookup" /\ t.stage = "send" /\ t.url.host \notin DOMAIN topo.dns)
                  => t.addresses = <<>>
       /\ \A t \in DOMAIN tasks :
              AbsorbsUnusable(t)
                  => UNCHANGED <<pendingConns, activeConns, pendingResolutions,
                                 connectionIdCtr, repeatedDailFails>>]_vars

\* the run has ended through success with the one connection of a, after the
\* empty resolutions of x and y were absorbed
C23_Witness ==
    /\ topo = TopoUnresolved
    /\ pc = "returned"
    /\ exitReason = "success"
    /\ connectionIdCtr = 1
    /\ ret = 1

\* the URLs of the queue q, batch after batch
RECURSIVE Flatten(_)
Flatten(q) == IF q = <<>> THEN <<>> ELSE Head(q) \o Flatten(Tail(q))

\* how many times the URL u is in the sequence s
Count(s, u) == Cardinality({i \in 1..Len(s) : s[i] = u})

\* the step pops the lookup queue
Pops == pc = "queue" /\ Len(pendingResolutions) > 0 /\ pendingResolutions' # pendingResolutions
            /\ Len(pendingResolutions') <= Len(pendingResolutions)

\* C24: pop returns the URL that peek returns, takes that one URL off the
\* queue, keeps the other batches in their order and puts the remainder of the
\* first batch, in its order, at the tail.
C24_PopRotatesRemainder ==
    [][Pops =>
        LET q == pendingResolutions
            r == pendingResolutions'
            u == peek(q)
        IN  /\ tasks' = AddTask(EmptyBag, LookupTask(u))
            /\ \A v \in QueueUrls :
                   Count(Flatten(r), v) = Count(Flatten(q), v) - (IF v = u THEN 1 ELSE 0)
            /\ SubSeq(r, 1, Len(q) - 1) = Tail(q)
            /\ IF Len(q[1]) = 1 THEN Len(r) = Len(q) - 1
               ELSE Len(r) = Len(q) /\ r[Len(r)] = Tail(q[1])]_vars

\* b was popped from the batch <<b, c>>, whose remainder is now behind <<a>>
C24_Witness ==
    /\ pc = "queue"
    /\ tasks = AddTask(EmptyBag, LookupTask(H("b", "/")))
    /\ pendingResolutions = <<<<H("a", "/")>>, <<H("c", "/")>>>>

\* the queue after n pops
RECURSIVE popN(_, _)
popN(q, n) == IF n = 0 THEN q ELSE popN(pop(q), n - 1)

\* C25: with k batches queued and no batch put, the next k pops return the
\* first URL of each of the k batches, in the order of the batches.
C25_RoundRobin ==
    pc = "queue" =>
        \A i \in 1..Len(pendingResolutions) :
            peek(popN(pendingResolutions, i - 1)) = pendingResolutions[i][1]

\* three batches are queued, the first with two URLs, after a pop
C25_Witness ==
    /\ pc = "queue"
    /\ tasks # EmptyBag
    /\ Len(pendingResolutions) = 3
    /\ Len(pendingResolutions[1]) = 2
    /\ pendingResolutions[1][1] # pendingResolutions[2][1]

\* the ids of the connections of the list conns are strictly increasing
IdsIncreasing(conns) ==
    \A i, j \in 1..Len(conns) : i < j => conns[i].id < conns[j].id

\* C26: connection ids are unique and increase in creation order, the counter
\* is the number of connections created, and a reply changes the crawled and
\* crawling URLs and the timestamps of the connection of its connId only.
C26_RepliesMatchedById ==
    [][/\ IdsIncreasing(activeConns' \o pendingConns')
       /\ connectionIdCtr' = Len(history')
       /\ \A i \in 1..Len(AllConns') : AllConns'[i].id < connectionIdCtr'
       /\ connectionIdCtr' # connectionIdCtr
              => /\ connectionIdCtr' = connectionIdCtr + 1
                 /\ pendingConns'[Len(pendingConns')].id = connectionIdCtr
       /\ \A reply \in DOMAIN tasks :
              AppliesAnyReply(reply)
                  => \A k \in 1..Len(activeConns) :
                         LET c == activeConns[k]
                             after == {j \in 1..Len(activeConns') : activeConns'[j].id = c.id}
                         IN  IF c.id # reply.connId
                             THEN \E j \in after :
                                      LET e == activeConns'[j]
                                      IN  /\ e.crawledUrls = c.crawledUrls
                                          /\ e.crawlingUrls = c.crawlingUrls
                                          /\ e.lastReply = c.lastReply
                                          /\ e.lastRequest = c.lastRequest
                             ELSE \A j \in after :
                                      LET e == activeConns'[j]
                                      IN  /\ urlToRelativeUrl(reply.url) \in e.crawledUrls
                                          /\ e.lastReply = reply.replyTs
                                          /\ e.lastRequest = reply.requestTs]_vars

\* the reply of the second connection was applied before that of the first
C26_Witness ==
    /\ Len(activeConns) = 2
    /\ activeConns[1].crawledUrls = {} /\ activeConns[1].crawlingUrls # {}
    /\ activeConns[2].crawledUrls # {}
    /\ activeConns[1].id < activeConns[2].id

\* the lines of the file whose path is a prefix of path
MatchingLines(lines, path) == {i \in 1..Len(lines) : HasPrefix(path, lines[i].value)}

\* C27: pathAllowed answers as the longest Allow or Disallow line that is a
\* prefix of the path does, and allows the path when no Disallow line is a
\* prefix of it, in whatever order the lines are in the file (nothing is asked
\* when an Allow and a Disallow line of the longest length both match).
C27_MostSpecificRuleWins ==
    robotstxt.asked =>
        LET M == MatchingLines(robotstxt.lines, robotstxt.path)
            top == {i \in M : \A j \in M : Len(robotstxt.lines[j].value) <= Len(robotstxt.lines[i].value)}
        IN  /\ (\A i \in M : robotstxt.lines[i].token = ruleAllow) => robotstxt.allowed
            /\ (top # {} /\ \A i \in top : robotstxt.lines[i].token = ruleAllow) => robotstxt.allowed
            /\ (top # {} /\ \A i \in top : robotstxt.lines[i].token = ruleDisallow) => ~robotstxt.allowed

\* the last reply of c is more than 3.5 s old and its last request more than 1 s
KeepAliveEligible(c) == Since(c.lastReply) > 3500 /\ Since(c.lastRequest) > 1000

\* c has an uncrawled URL and its last request is at least 1 s old
Discoverable(c) == c.uncrawledUrls # {} /\ Since(c.lastRequest) >= 1000

\* C28: a crawl is dispatched on the first active connection that is to be kept
\* alive, whether or not a connection is pending; without one, on the head of
\* pendingConns; without one, on an active connection with an uncrawled URL
\* whose last request is 1 s old, a token of semC being free.
C28_SelectionPriority ==
    [][\A n \in 1..Len(AllConns) :
          LET c == AllConns[n]
              eligible == {i \in 1..Len(activeConns) : KeepAliveEligible(activeConns[i])}
          IN  DispatchesOn(c)
                  => IF eligible # {}
                     THEN \E i \in eligible : /\ activeConns[i].id = c.id
                                              /\ \A j \in eligible : i <= j
                     ELSE IF pendingConns # <<>> THEN c.id = pendingConns[1].id
                     ELSE /\ \E i \in 1..Len(activeConns) : activeConns[i].id = c.id
                          /\ Discoverable(c)
                          /\ semC < workerLimit]_vars

\* a connection that has answered is being refreshed while another is pending
C28_Witness ==
    /\ pc = "loop"
    /\ pendingConns # <<>>
    /\ \E i \in 1..Len(activeConns) :
           /\ activeConns[i].crawledUrls # {}
           /\ activeConns[i].lastReply = MaxReplyAge
           /\ activeConns[i].lastRequest = 0
           /\ InFlight(activeConns[i].id) = 1

\* C29: with no connection to keep alive and none pending, the crawl is
\* dispatched on the active connection, among those with an uncrawled URL whose
\* last request is 1 s old, whose last reply is the oldest.
C29_DiscoveryOldestReply ==
    [][\A n \in 1..Len(activeConns) :
          LET c == activeConns[n]
          IN  (/\ DispatchesOn(c)
               /\ pendingConns = <<>>
               /\ \A i \in 1..Len(activeConns) : ~KeepAliveEligible(activeConns[i]))
                  => \A i \in 1..Len(activeConns) :
                         Discoverable(activeConns[i])
                             => activeConns[i].lastReply <= c.lastReply]_vars

\* the step applies the first successful reply of its connection
FirstSuccess(reply) ==
    /\ reply.err = ""
    /\ activeConns[indexConnectionById(activeConns, reply.connId)].crawledUrls = {}

\* C30: a reply with a dial error adds one to repeatedDailFails, the first
\* successful reply of a connection sets it to zero, every other reply leaves
\* it as it was.
C30_DialFailCounter ==
    [][\A reply \in DOMAIN tasks :
          AppliesAnyReply(reply)
              => repeatedDailFails' =
                     IF isDialError(reply.err) THEN repeatedDailFails + 1
                     ELSE IF FirstSuccess(reply) THEN 0
                     ELSE repeatedDailFails]_vars

\* the step receives the reply of a connection that is not in activeConns
DropsLateReply(reply) ==
    /\ pc = "loop"
    /\ reply.kind = "scrap" /\ reply.stage = "send"
    /\ \A i \in 1..Len(activeConns) : activeConns[i].id # reply.connId
    /\ tasks' = ReplaceTask(tasks, reply, ReleaseTask)

\* C31: a reply whose connId is that of no active connection changes neither
\* activeConns nor pendingConns (URL sets and timestamps included), nor the
\* lookup queue, nor repeatedDailFails; its scraped URLs go nowhere.
C31_LateReplyDropped ==
    [][\A reply \in DOMAIN tasks :
          DropsLateReply(reply)
              => UNCHANGED <<activeConns, pendingConns, pendingResolutions,
                             repeatedDailFails>>]_vars

\* the reply of a connection that had failed was received and dropped
C31_Witness ==
    \E id \in GoneIds : history[id + 1].late

\* C32: a scraped URL of the host of an active connection becomes uncrawled
\* there only if it is neither crawling nor crawled there, and is not queued;
\* the batch put on the lookup queue has pairwise distinct host keys, none of
\* them that of a pending or an active connection.
C32_ScrapedUrlsPartitioned ==
    [][\A reply \in DOMAIN tasks :
          AppliesReply(reply)
              => /\ \A i \in 1..Len(activeConns') :
                        LET c == activeConns'[i]
                            before == activeConns[indexConnectionById(activeConns, c.id)]
                        IN  (c.uncrawledUrls \ before.uncrawledUrls)
                                \cap (c.crawlingUrls \cup c.crawledUrls) = {}
                 /\ \A k \in 1..Len(NewBatch) :
                        /\ \A i \in 1..Len(AllConns) :
                               AllConns[i].hostPort # canonicalHost(NewBatch[k])
                        /\ \A j \in 1..Len(NewBatch) :
                               j # k => canonicalHost(NewBatch[j]) # canonicalHost(NewBatch[k])]_vars

\* a page of a was crawled and a link to another page of a is uncrawled there
C32_Witness ==
    \E i \in 1..Len(activeConns) :
        /\ activeConns[i].crawledUrls # {}
        /\ activeConns[i].uncrawledUrls # {}
        /\ activeConns[i].uncrawledUrls \cap activeConns[i].crawledUrls = {}

\* C33: when every lookup and every fetch that is dispatched completes, the
\* loop is left, through success or through saturation.
C33_LoopTerminates == <>(pc \in {"shutdown", "returned"})

\* C34: once the loop is left, MeasureMaxConnections returns, after every
\* goroutine has released its token.
C34_ShutdownReturns ==
    (pc = "shutdown") ~> (pc = "returned" /\ tasks = EmptyBag /\ refill = workerLimit)

\* the refill has pushed a token while a goroutine still holds its own
C34_Witness ==
    /\ pc = "shutdown"
    /\ refill > 0
    /\ \E t \in DOMAIN tasks : t.stage \in {"run", "send"}

\* C38: the lookup queue never holds an empty batch, so whenever the queue is
\* not empty peek and pop find a URL at the head of its first batch.
C38_NoEmptyBatch ==
    /\ \A i \in 1..Len(pendingResolutions) : Len(pendingResolutions[i]) > 0
    /\ Len(pendingResolutions) > 0 => peek(pendingResolutions) \in Range(pendingResolutions[1])

\* the lookup of b was popped from the batch <<b, c>> and the remainder is queued
C38_Witness ==
    /\ topo.name = "fan"
    /\ pendingResolutions = <<<<H("c", "/")>>>>
    /\ \E t \in DOMAIN tasks : t.kind = "lookup" /\ t.url = H("b", "/")

InWildcardGroup(lines, i) ==
    \E last \in 1..(i - 1) :
        /\ lines[last].token = userAgent
        /\ \A k \in (last + 1)..(i - 1) : lines[k].token # userAgent
        /\ \E agent \in 1..last :
            /\ lines[agent] = [token |-> userAgent, value |-> <<"*">>]
            /\ \A k \in agent..last : lines[k].token = userAgent

\* C37: every Crawl-delay, Allow and Disallow that scrapRobotsTxt returns is that
\* of a line whose nearest preceding run of User-agent lines names the wildcard.
C37_OnlyWildcardGroup ==
    robotstxt.parsed =>
        /\ \A token \in {ruleAllow, ruleDisallow} :
            \A r \in 1..Len(robotstxt.rules[token]) :
                \E i \in 1..Len(robotstxt.lines) :
                    /\ robotstxt.lines[i] = [token |-> token, value |-> robotstxt.rules[token][r]]
                    /\ InWildcardGroup(robotstxt.lines, i)
        /\ \A r \in 1..Len(robotstxt.rules[ruleCrawlDelay]) :
            \E i \in 1..Len(robotstxt.lines) :
                /\ robotstxt.lines[i].token = ruleCrawlDelay
                /\ parseCrawlDelay(robotstxt.lines[i].value) = robotstxt.rules[ruleCrawlDelay][r]
                /\ InWildcardGroup(robotstxt.lines, i)

\* C35: the worker goroutines started by the loop over a pool of workers are
\* never more than the seeds.
C35_WorkersWithinSeeds == pc = "loop" => workerCounter <= Len(topo.urls)

\* the ids of a list of connections, in order
ConnIds(conns) == [i \in 1..Len(conns) |-> conns[i].id]

\* C36: every seed is counted at most once as active or failed: the two lists
\* together are never longer than the seed list, and no connection id is in
\* both lists or twice in one.
C36_ClassifiedOnce ==
    LET ids == ConnIds(activeConns) \o ConnIds(failedConns)
    IN  /\ Len(ids) <= Len(topo.urls)
        /\ \A i, j \in 1..Len(ids) : ids[i] = ids[j] => i = j

====
